---- MODULE Spec2Model ----
(***************************************************************************)
(* GreenWave: the signal recorder (src/components/SignalRecorder.tsx) and  *)
(* the navigator's phase predictor (src/components/Navigator.tsx).         *)
(*                                                                         *)
(* Time is counted in whole seconds: Date.now() is 1000 * now, so the      *)
(* code's (a - b) / 1000 on two readings of the clock is the difference of *)
(* the two values of now, and setTimeout(f, yellowDuration * 1000) is due  *)
(* yellowDuration units after the reading of the clock that scheduled it.  *)
(* Two events handled without a TickClock step between them read the same  *)
(* value of Date.now().                                                    *)
(***************************************************************************)
EXTENDS Integers, Sequences, FiniteSets

VARIABLES
    now,              \* Date.now(), in seconds
    mounted,          \* the SignalRecorder component is rendered by App
    uiPhase,          \* useState<Phase>
    signalPhase,      \* useState<SignalPhase>
    cycleData,        \* useState {greenStart, greenEnd, redStart}
    yellowTimers,     \* pending setTimeout callbacks of handleSignalRelease: [due, active],
                      \* active: the session had not ended when the timer was scheduled
    recordedSignals,  \* useState<Signal[]>
    recordedPath,     \* useState<Coordinate[]>
    userLocation,     \* prop userLocation: a Coordinate or "null"
    pathDue,          \* due time of the running path setInterval: <<t>>, or <<>> when cleared
    saved,            \* the storage's Route of this routeId: <<>> when none, else <<route>>
    saveCalls,        \* how many times saveRoute was called
    lastEvent,        \* the step taken last
    route,            \* Navigator useState<Route | null>: <<>> for null, else <<signals>>
    loadPending,      \* getRouteById of the load effect has not resolved yet
    lastPosition,     \* Navigator useRef lastPosition: <<>> for null, else <<[pos, time]>>
    speedHistory,     \* Navigator useRef speedHistory
    navState,         \* Navigator useState<NavigationState>
    tickSpeedKmh,     \* navState.currentSpeedKmh as the running interval's callback holds it
    tickLocals        \* the locals of the last updateNavigationLogic that ran to its end

recVars == <<mounted, uiPhase, signalPhase, cycleData, yellowTimers,
             recordedSignals, recordedPath, userLocation, pathDue, saved, saveCalls>>

navVars == <<route, loadPending, lastPosition, speedHistory, navState,
             tickSpeedKmh, tickLocals>>

vars == <<now, lastEvent, recVars, navVars>>

(* ------------------------------ bounds --------------------------------- *)
MaxTime == 6
MaxSignals == 2
MaxPath == 2
MaxSaves == 2

(* ------------------------- program constants --------------------------- *)
yellowDuration == 3
PathIntervalSec == 2

\* the positions the location stream delivers
Coordinates == {"p1", "p2"}

\* the fixes that may follow the current one: the vehicle drives from p1
\* towards p2, a fix may repeat, and the first fix may be either position
NextFixes(loc) ==
    IF loc = "p2" THEN {"p2"} ELSE Coordinates

(* ------------------------------ helpers -------------------------------- *)

\* [...prev, x]
Push(s, x) == Append(s, x)

\* the sequence s without its i-th element
RemoveAt(s, i) == [j \in 1..(Len(s) - 1) |-> IF j < i THEN s[j] ELSE s[j + 1]]

\* recordedPath[0] and recordedPath[recordedPath.length - 1]; undefined on an empty path
FirstOf(p) == IF Len(p) = 0 THEN "undefined" ELSE p[1]
LastOf(p) == IF Len(p) = 0 THEN "undefined" ELSE p[Len(p)]

(* ------------------------------ recorder ------------------------------- *)

NewCycle_NoYellow(greenDuration, yellow, redDuration) ==
    [greenDuration |-> greenDuration,
     yellowDuration |-> yellow,
     redDuration    |-> redDuration,
     totalDuration  |-> greenDuration + redDuration]

\* the cycle literal of newSignal
NewCycle(greenDuration, yellow, redDuration) ==
    [greenDuration |-> greenDuration,
     yellowDuration |-> yellow,
     redDuration    |-> redDuration,
     totalDuration  |-> greenDuration + yellow + redDuration]

NewSignal_RedFromGreenEnd(cd, t, loc) ==
    [location |-> loc,
     cycle |-> NewCycle(cd.greenEnd - cd.greenStart, yellowDuration, t - cd.greenEnd),
     referenceTimestamp |-> cd.greenStart]

\* newSignal of handleSignalPress, built at clock reading t
NewSignal(cd, t, loc) ==
    [location |-> loc,
     cycle |-> NewCycle(cd.greenEnd - cd.greenStart, yellowDuration, t - cd.redStart),
     referenceTimestamp |-> cd.greenStart]

\* the path effect runs its cleanup and, in DRIVING or RECORDING_SIGNAL, starts a new interval
PathEffect(phase) ==
    IF phase \in {"DRIVING", "RECORDING_SIGNAL"} THEN <<now + PathIntervalSec>> ELSE <<>>

\* the recording overlay (and with it the press / release handlers) is rendered
OverlayShown == mounted /\ uiPhase \in {"RECORDING_SIGNAL", "SAVING"}

\* finish was invoked or the recorder was dismissed
SessionEnded == saveCalls > 0 \/ ~mounted

\* the Finish button is rendered with the recorder HUD
HudShown == mounted /\ uiPhase # "INIT_ROUTE"

RecorderInit ==
    /\ now = 0
    /\ mounted = TRUE
    /\ uiPhase = "INIT_ROUTE"
    /\ signalPhase = "WAITING_GREEN"
    /\ cycleData = [greenStart |-> 0, greenEnd |-> 0, redStart |-> 0]
    /\ yellowTimers = <<>>
    /\ recordedSignals = <<>>
    /\ recordedPath = <<>>
    /\ userLocation = "null"
    /\ pathDue = <<>>
    /\ saved = <<>>
    /\ saveCalls = 0
    /\ lastEvent = "mount"

\* the wall clock advances
TickClock ==
    /\ now < MaxTime
    /\ now' = now + 1
    /\ lastEvent' = "clock"
    /\ UNCHANGED navVars
    /\ UNCHANGED <<mounted, uiPhase, signalPhase, cycleData, yellowTimers,
                   recordedSignals, recordedPath, userLocation, pathDue, saved, saveCalls>>

\* App's watchPosition callback: a new userLocation object reaches the recorder
LocationUpdate ==
    /\ mounted
    /\ \E c \in NextFixes(userLocation) : userLocation' = c
    /\ pathDue' = PathEffect(uiPhase)
    /\ lastEvent' = "location"
    /\ UNCHANGED navVars
    /\ UNCHANGED <<now, mounted, uiPhase, signalPhase, cycleData, yellowTimers,
                   recordedSignals, recordedPath, saved, saveCalls>>

startRoute ==
    /\ mounted /\ uiPhase = "INIT_ROUTE"
    /\ uiPhase' = "DRIVING"
    /\ pathDue' = PathEffect("DRIVING")
    /\ lastEvent' = "start"
    /\ UNCHANGED navVars
    /\ UNCHANGED <<now, mounted, signalPhase, cycleData, yellowTimers,
                   recordedSignals, recordedPath, userLocation, saved, saveCalls>>

\* the Cancel button of the INIT_ROUTE dialog: onBack
cancelRoute ==
    /\ mounted /\ uiPhase = "INIT_ROUTE"
    /\ mounted' = FALSE
    /\ pathDue' = <<>>
    /\ lastEvent' = "cancel"
    /\ UNCHANGED navVars
    /\ UNCHANGED <<now, uiPhase, signalPhase, cycleData, yellowTimers,
                   recordedSignals, recordedPath, userLocation, saved, saveCalls>>

\* the "Record Signal Here" button
recordSignalHere ==
    /\ mounted /\ uiPhase = "DRIVING"
    /\ uiPhase' = "RECORDING_SIGNAL"
    /\ pathDue' = PathEffect("RECORDING_SIGNAL")
    /\ lastEvent' = "record"
    /\ UNCHANGED navVars
    /\ UNCHANGED <<now, mounted, signalPhase, cycleData, yellowTimers,
                   recordedSignals, recordedPath, userLocation, saved, saveCalls>>

\* the setInterval callback of the path effect
PathSample ==
    /\ mounted /\ pathDue # <<>> /\ now >= pathDue[1]
    /\ Len(recordedPath) < MaxPath
    /\ recordedPath' = IF userLocation # "null" THEN Push(recordedPath, userLocation)
                                                ELSE recordedPath
    /\ pathDue' = <<now + PathIntervalSec>>
    /\ lastEvent' = "sample"
    /\ UNCHANGED navVars
    /\ UNCHANGED <<now, mounted, uiPhase, signalPhase, cycleData, yellowTimers,
                   recordedSignals, userLocation, saved, saveCalls>>

PressStartsCycle_AlsoYellow == signalPhase \in {"WAITING_GREEN", "YELLOW"}
PressCompletesCycle_AnyPhase == signalPhase # "WAITING_GREEN"
ReleaseAccepted_AnyPhase == TRUE
WithRedStart_Dropped(cd, t) == cd
YellowTimerDelay_Millis == yellowDuration \div 1000

\* the conditions of handleSignalPress and handleSignalRelease
PressStartsCycle == signalPhase = "WAITING_GREEN"
PressCompletesCycle == signalPhase = "RED"
ReleaseAccepted == signalPhase = "GREEN"

\* the cycleData updaters
WithGreenStart(cd, t) == [cd EXCEPT !.greenStart = t]
WithGreenEnd(cd, t) == [cd EXCEPT !.greenEnd = t]
WithRedStart(cd, t) == [cd EXCEPT !.redStart = t]

\* the delay handed to setTimeout, in seconds
YellowTimerDelay == (yellowDuration * 1000) \div 1000

handleSignalPress ==
    /\ OverlayShown
    /\ lastEvent' = "press"
    /\ UNCHANGED navVars
    /\ IF PressStartsCycle THEN
           /\ Len(recordedSignals) < MaxSignals
           /\ signalPhase' = "GREEN"
           /\ cycleData' = WithGreenStart(cycleData, now)
           /\ UNCHANGED <<uiPhase, recordedSignals, pathDue>>
       ELSE IF PressCompletesCycle THEN
           /\ recordedSignals' = Push(recordedSignals, NewSignal(cycleData, now, userLocation))
           /\ uiPhase' = "DRIVING"
           /\ signalPhase' = "WAITING_GREEN"
           /\ pathDue' = PathEffect("DRIVING")
           /\ UNCHANGED cycleData
       ELSE UNCHANGED <<uiPhase, signalPhase, cycleData, recordedSignals, pathDue>>
    /\ UNCHANGED <<now, mounted, yellowTimers, recordedPath, userLocation, saved, saveCalls>>

handleSignalRelease ==
    /\ OverlayShown
    /\ lastEvent' = "release"
    /\ UNCHANGED navVars
    /\ IF ReleaseAccepted THEN
           /\ now + YellowTimerDelay <= MaxTime
           /\ signalPhase' = "YELLOW"
           /\ cycleData' = WithGreenEnd(cycleData, now)
           /\ yellowTimers' = Push(yellowTimers, [due |-> now + YellowTimerDelay,
                                               active |-> ~SessionEnded])
       ELSE UNCHANGED <<signalPhase, cycleData, yellowTimers>>
    /\ UNCHANGED <<now, mounted, uiPhase, recordedSignals, recordedPath,
                   userLocation, pathDue, saved, saveCalls>>

\* the setTimeout callback of handleSignalRelease; a state update of an unmounted
\* component is dropped
YellowTimerFire ==
    \E i \in 1..Len(yellowTimers) :
        /\ now >= yellowTimers[i].due
        /\ yellowTimers' = RemoveAt(yellowTimers, i)
        /\ lastEvent' = "timer"
        /\ UNCHANGED navVars
        /\ IF mounted THEN /\ signalPhase' = "RED"
                           /\ cycleData' = WithRedStart(cycleData, now)
                      ELSE UNCHANGED <<signalPhase, cycleData>>
        /\ UNCHANGED <<now, mounted, uiPhase, recordedSignals, recordedPath,
                       userLocation, pathDue, saved, saveCalls>>

\* saveRoute on the Routes of this routeId: the Route of the same id is replaced
saveRoute(routes, r) ==
    IF Len(routes) > 0 THEN [routes EXCEPT ![1] = r] ELSE Push(routes, r)

\* fullRoute of finishRoute
FullRoute(path, signals) ==
    [path |-> path, signals |-> signals,
     startLocation |-> FirstOf(path), endLocation |-> LastOf(path)]

\* finishRoute up to its await: saveRoute runs to its end inside the call
finishRoute ==
    /\ HudShown
    /\ saveCalls < MaxSaves
    /\ uiPhase' = "SAVING"
    /\ saved' = saveRoute(saved, FullRoute(recordedPath, recordedSignals))
    /\ saveCalls' = saveCalls + 1
    /\ pathDue' = <<>>
    /\ lastEvent' = "finish"
    /\ UNCHANGED navVars
    /\ UNCHANGED <<now, mounted, signalPhase, cycleData, yellowTimers,
                   recordedSignals, recordedPath, userLocation>>

\* finishRoute after its await: onBack, App leaves CREATE_ROUTE and unmounts the recorder
finishReturn ==
    /\ mounted /\ saveCalls > 0
    /\ mounted' = FALSE
    /\ pathDue' = <<>>
    /\ lastEvent' = "back"
    /\ UNCHANGED navVars
    /\ UNCHANGED <<now, uiPhase, signalPhase, cycleData, yellowTimers,
                   recordedSignals, recordedPath, userLocation, saved, saveCalls>>

(* ------------------------------ numbers -------------------------------- *)
(* A JavaScript number that is not an integer count of seconds is kept as  *)
(* an exact fraction [n, d] in lowest terms with d > 0; d = 0 stands for   *)
(* the two special values the navigator can produce: NaN (n = 0) and       *)
(* Infinity (n = 1).                                                       *)

RECURSIVE GCD(_, _)
GCD(a, b) == IF b = 0 THEN a ELSE GCD(b, a % b)

Abs(x) == IF x < 0 THEN -x ELSE x

NaN == [n |-> 0, d |-> 0]
Infinity == [n |-> 1, d |-> 0]

\* n / d for integers n >= 0 and d >= 0, as JavaScript divides
Rat(n, d) ==
    IF d = 0 THEN (IF n = 0 THEN NaN ELSE Infinity)
    ELSE LET g == GCD(n, d) IN [n |-> n \div g, d |-> d \div g]

RInt(k) == [n |-> k, d |-> 1]
IsNaN(r) == r.d = 0 /\ r.n = 0

\* a < b; false when either side is NaN
RLess(a, b) == ~IsNaN(a) /\ ~IsNaN(b) /\ a.n * b.d < b.n * a.d

\* a + b, a * b, a / b on non-negative numbers
RAdd(a, b) ==
    IF IsNaN(a) \/ IsNaN(b) THEN NaN
    ELSE IF a.d = 0 \/ b.d = 0 THEN Infinity
    ELSE Rat(a.n * b.d + b.n * a.d, a.d * b.d)
RMul(a, b) ==
    IF IsNaN(a) \/ IsNaN(b) THEN NaN ELSE Rat(a.n * b.n, a.d * b.d)
RDiv(a, b) ==
    IF IsNaN(a) \/ IsNaN(b) THEN NaN ELSE Rat(a.n * b.d, a.d * b.n)

\* the % of JavaScript on integers: the remainder takes the sign of the dividend
JsRem(a, b) == IF a >= 0 THEN a % Abs(b) ELSE -((-a) % Abs(b))

(* ------------------------------ navigator ------------------------------ *)

\* bounds of the navigation session
NavMaxTime == 6
MaxFixes == 2

\* constants of Navigator.tsx
SpeedWindow == 5
EtaSentinel == 999
ArrivalZoneMeters == 20

KmhPerMps == Rat(18, 5)
JitterMps == Rat(1, 2)

\* A position is a point of a straight road, x metres from its start. App hands the
\* Navigator its Coordinate {latitude, longitude}, where the Navigator's Props read
\* {lat, lng}: NoLatLng is such an object, whose lat and lng are undefined.
Pos(x) == [def |-> TRUE, x |-> x]
NoLatLng == [def |-> FALSE, x |-> 0]
UserFixes == {Pos(15), Pos(40), NoLatLng}
SignalPositions == {Pos(0), Pos(30)}

\* calculateDistance: the haversine distance, a metric on the road; NaN on an undefined
\* coordinate
calculateDistance(a, b) ==
    IF a.def /\ b.def THEN RInt(Abs(a.x - b.x)) ELSE NaN

RECURSIVE SumFrom(_, _)
SumFrom(h, i) == IF i > Len(h) THEN RInt(0) ELSE RAdd(h[i], SumFrom(h, i + 1))

calculateSmoothedSpeed(h) ==
    IF Len(h) = 0 THEN RInt(0) ELSE RDiv(SumFrom(h, 1), RInt(Len(h)))

\* the Signals a stored Route can hold: the cycles the recorder builds (a press and a
\* release, or the expiry and a press, at one clock reading give a duration of 0), anchored
\* at the clock reading of a press; an anchor later than now is a Route recorded before the
\* device clock was set back
GreenDurations == {0, 2}
RedDurations == {0, 4}
ReferenceTimestamps == {0, 4}
OnTimeSignals ==
    {[location |-> l, cycle |-> NewCycle(g, yellowDuration, r), referenceTimestamp |-> 0] :
        l \in SignalPositions, g \in GreenDurations, r \in RedDurations}
LateSignals ==
    {[location |-> Pos(0), cycle |-> NewCycle(g, yellowDuration, 0),
      referenceTimestamp |-> t] :
        g \in GreenDurations, t \in ReferenceTimestamps \ {0}}
ShortSignals == OnTimeSignals \cup LateSignals

\* a green, or a red, that the recorder timed for more than a quarter of an hour
LongCycles == {NewCycle(1000, yellowDuration, 0), NewCycle(0, yellowDuration, 1000)}
LongSignals ==
    {[location |-> Pos(0), cycle |-> c, referenceTimestamp |-> 0] : c \in LongCycles}

StoredSignals == ShortSignals \cup LongSignals

\* the Routes getRouteById can deliver: no Signal, one Signal, or two Signals at two places,
\* anchored at 0, with a red phase
PairSignals ==
    {sg \in ShortSignals : sg.referenceTimestamp = 0 /\ sg.cycle.redDuration > 0}
StoredRoutes ==
    {<<>>} \cup {<<sg>> : sg \in StoredSignals}
           \cup {pr \in PairSignals \X PairSignals : pr[1].location # pr[2].location}

NavStateInit_Stop ==
    [currentSpeedKmh |-> RInt(0),
     distanceToSignal |-> RInt(0),
     etaSeconds |-> RInt(0),
     recommendedAction |-> "STOP",
     targetSpeedKmh |-> <<>>,
     timeToPhaseChange |-> 0,
     nextPhase |-> "GREEN",
     currentPhase |-> "GREEN"]

\* the initial NavigationState; targetSpeedKmh is <<>> while undefined
NavStateInit ==
    [currentSpeedKmh |-> RInt(0),
     distanceToSignal |-> RInt(0),
     etaSeconds |-> RInt(0),
     recommendedAction |-> "MAINTAIN",
     targetSpeedKmh |-> <<>>,
     timeToPhaseChange |-> 0,
     nextPhase |-> "GREEN",
     currentPhase |-> "GREEN"]

NavVarsInit ==
    /\ route = <<>>
    /\ loadPending = TRUE
    /\ lastPosition = <<>>
    /\ speedHistory = <<>>
    /\ navState = NavStateInit
    /\ tickSpeedKmh = RInt(0)
    /\ tickLocals = [cyclePos |-> 0, speedMps |-> RInt(0), nearest |-> 0]

\* the wall clock advances during navigation
NavClock ==
    /\ now < NavMaxTime
    /\ now' = now + 1
    /\ lastEvent' = "navclock"
    /\ UNCHANGED <<recVars, navVars>>

\* the load effect: getRouteById resolves with no Route, or with a Route; the interval
\* effect runs again when route changes
loadRoute ==
    /\ loadPending
    /\ loadPending' = FALSE
    /\ lastEvent' = "load"
    /\ \/ UNCHANGED <<route, tickSpeedKmh>>
       \/ \E r \in StoredRoutes :
             /\ route' = <<r>>
             /\ tickSpeedKmh' = navState.currentSpeedKmh
    /\ UNCHANGED <<now, recVars, lastPosition, speedHistory, navState, tickLocals>>

\* currentSpeedMps of handlePositionUpdate
InstantSpeed(coords) ==
    IF lastPosition = <<>> THEN RInt(0)
    ELSE LET timeDiff == now - lastPosition[1].time
         IN  IF timeDiff > 0
             THEN RDiv(calculateDistance(lastPosition[1].pos, coords), RInt(timeDiff))
             ELSE RInt(0)

PushSample_DropNewest(h, v) ==
    IF Len(h) >= SpeedWindow THEN h ELSE Append(h, v)

\* speedHistory after push and shift
PushSample(h, v) ==
    LET pushed == Append(h, v)
    IN  IF Len(pushed) > SpeedWindow THEN Tail(pushed) ELSE pushed

DisplaySpeed_NoClamp(smoothedMps) == RMul(smoothedMps, KmhPerMps)

\* displaySpeed of handlePositionUpdate, in km/h
DisplaySpeed(smoothedMps) ==
    IF RLess(smoothedMps, JitterMps) THEN RInt(0) ELSE RMul(smoothedMps, KmhPerMps)

\* the userLocation prop changes to coords: the position effect runs
\* handlePositionUpdate, and the interval effect starts a new interval whose callback is
\* the one of this render, which holds navState as it was before the update
PositionUpdate(coords) ==
    LET history == PushSample(speedHistory, InstantSpeed(coords))
    IN  /\ speedHistory' = history
        /\ lastPosition' = <<[pos |-> coords, time |-> now]>>
        /\ navState' = [navState EXCEPT
               !.currentSpeedKmh = DisplaySpeed(calculateSmoothedSpeed(history))]
        /\ tickSpeedKmh' = navState.currentSpeedKmh
        /\ lastEvent' = "fix"
        /\ UNCHANGED <<now, recVars, route, loadPending, tickLocals>>

\* a position fix during a navigation session
handlePositionUpdate ==
    /\ Len(speedHistory) < MaxFixes
    /\ \E coords \in UserFixes : PositionUpdate(coords)

\* the fixes of a vehicle that crawls in a queue: a metre apart, or without lat and lng
CrawlMaxTime == 3
CrawlFixes == {Pos(15), Pos(16), NoLatLng}

CrawlClock ==
    /\ now < CrawlMaxTime
    /\ NavClock

\* a position fix of the crawling vehicle; the window of speedHistory bounds the states
CrawlPositionUpdate ==
    \E coords \in CrawlFixes : PositionUpdate(coords)

\* the forEach of updateNavigationLogic from the i-th Signal on; best = [nearest, minDist]
RECURSIVE NearestFrom(_, _, _, _)
NearestFrom(signals, userLoc, i, best) ==
    IF i > Len(signals) THEN best
    ELSE LET d == calculateDistance(userLoc, signals[i].location)
         IN  NearestFrom(signals, userLoc, i + 1,
                         IF RLess(d, best.minDist)
                         THEN [nearest |-> i, minDist |-> d] ELSE best)

NearestSignal(signals, userLoc) ==
    NearestFrom(signals, userLoc, 1, [nearest |-> 1, minDist |-> Infinity])

\* cyclePos of updateNavigationLogic
CyclePos(sig, t) == JsRem(t - sig.referenceTimestamp, sig.cycle.totalDuration)

PhaseAt_GreenInclusive(cycle, e) ==
    IF e <= cycle.greenDuration THEN
        [currentPhase |-> "GREEN", timeToChange |-> cycle.greenDuration - e,
         nextPhase |-> "YELLOW"]
    ELSE IF e < cycle.greenDuration + cycle.yellowDuration THEN
        [currentPhase |-> "YELLOW",
         timeToChange |-> (cycle.greenDuration + cycle.yellowDuration) - e,
         nextPhase |-> "RED"]
    ELSE
        [currentPhase |-> "RED", timeToChange |-> cycle.totalDuration - e,
         nextPhase |-> "GREEN"]

\* currentPhase, timeToChange and nextPhase of updateNavigationLogic at cycle position e
PhaseAt(cycle, e) ==
    IF e < cycle.greenDuration THEN
        [currentPhase |-> "GREEN", timeToChange |-> cycle.greenDuration - e,
         nextPhase |-> "YELLOW"]
    ELSE IF e < cycle.greenDuration + cycle.yellowDuration THEN
        [currentPhase |-> "YELLOW",
         timeToChange |-> (cycle.greenDuration + cycle.yellowDuration) - e,
         nextPhase |-> "RED"]
    ELSE
        [currentPhase |-> "RED", timeToChange |-> cycle.totalDuration - e,
         nextPhase |-> "GREEN"]

\* eta of updateNavigationLogic
Eta(dist, speedMps) ==
    IF RLess(RInt(0), speedMps) THEN RDiv(dist, speedMps) ELSE RInt(EtaSentinel)

ArrivesBefore_Inclusive(eta, timeToChange) ==
    ~IsNaN(eta) /\ ~RLess(RInt(timeToChange), eta)

\* eta < timeToChange
ArrivesBefore(eta, timeToChange) == RLess(eta, RInt(timeToChange))

TargetSpeedKmh_OneSecondLate(dist, timeToChange) ==
    RMul(RDiv(dist, RInt(timeToChange + 1)), KmhPerMps)

\* targetSpeed of the red branch: idealSpeedMps * 3.6
TargetSpeedKmh(dist, timeToChange) ==
    RMul(RDiv(dist, RInt(timeToChange)), KmhPerMps)

DefaultAdvice_Decelerate == [action |-> "DECELERATE", targetSpeed |-> <<>>]

\* action and targetSpeed as declared, before any rule assigns them
DefaultAdvice == [action |-> "MAINTAIN", targetSpeed |-> <<>>]

InArrivalZone_WithinTen(dist) == RLess(dist, RInt(10))
InArrivalZone_WithinFifty(dist) == RLess(dist, RInt(50))

\* dist < 20
InArrivalZone(dist) == RLess(dist, RInt(ArrivalZoneMeters))

\* action and targetSpeed of updateNavigationLogic
Recommend(dist, eta, phase, timeToChange) ==
    IF InArrivalZone(dist) THEN
        [DefaultAdvice EXCEPT !.action = IF phase = "RED" THEN "STOP" ELSE "MAINTAIN"]
    ELSE IF phase = "GREEN" THEN
        [DefaultAdvice EXCEPT
            !.action = IF ArrivesBefore(eta, timeToChange)
                       THEN "MAINTAIN" ELSE "DECELERATE"]
    ELSE IF phase = "RED" THEN
        IF ArrivesBefore(eta, timeToChange)
        THEN [action |-> "DECELERATE",
              targetSpeed |-> <<TargetSpeedKmh(dist, timeToChange)>>]
        ELSE [DefaultAdvice EXCEPT !.action = "MAINTAIN"]
    ELSE DefaultAdvice

\* the early return of updateNavigationLogic
TickReturnsEarly == route = <<>> \/ Len(route[1]) = 0 \/ lastPosition = <<>>

\* the setInterval callback, every 200 ms
updateNavigationLogic ==
    /\ UNCHANGED <<now, recVars, route, loadPending, lastPosition, speedHistory,
                   tickSpeedKmh>>
    /\ IF TickReturnsEarly THEN
           /\ lastEvent' = "navidle"
           /\ UNCHANGED <<navState, tickLocals>>
       ELSE
           LET best == NearestSignal(route[1], lastPosition[1].pos)
               nearestSignal == route[1][best.nearest]
               dist == best.minDist
               speedMps == RDiv(tickSpeedKmh, KmhPerMps)
               eta == Eta(dist, speedMps)
               cyclePos == CyclePos(nearestSignal, now)
               ph == PhaseAt(nearestSignal.cycle, cyclePos)
               rec == Recommend(dist, eta, ph.currentPhase, ph.timeToChange)
           IN  /\ lastEvent' = "navtick"
               /\ navState' = [navState EXCEPT
                      !.distanceToSignal = dist,
                      !.etaSeconds = eta,
                      !.currentPhase = ph.currentPhase,
                      !.timeToPhaseChange = ph.timeToChange,
                      !.recommendedAction = rec.action,
                      !.targetSpeedKmh = rec.targetSpeed,
                      !.nextPhase = ph.nextPhase]
               /\ tickLocals' = [cyclePos |-> cyclePos, speedMps |-> speedMps,
                                 nearest |-> best.nearest]

Init == RecorderInit /\ NavVarsInit

Next ==
    \/ TickClock
    \/ LocationUpdate
    \/ startRoute
    \/ cancelRoute
    \/ recordSignalHere
    \/ PathSample
    \/ handleSignalPress
    \/ handleSignalRelease
    \/ YellowTimerFire
    \/ finishRoute
    \/ finishReturn

Spec == Init /\ [][Next]_vars

\* time passes and the event loop runs a timer callback that is due
FairSpec == Spec /\ WF_vars(TickClock) /\ WF_vars(YellowTimerFire)

\* a navigation session: App renders the Navigator, not the recorder
NavInit ==
    /\ RecorderInit
    /\ NavVarsInit

NavNext ==
    \/ NavClock
    \/ loadRoute
    \/ handlePositionUpdate
    \/ updateNavigationLogic

NavSpec == NavInit /\ [][NavNext]_vars

\* the speed estimate alone, over any number of fixes of a crawling vehicle
CrawlNext ==
    \/ CrawlClock
    \/ CrawlPositionUpdate

CrawlSpec == NavInit /\ [][CrawlNext]_vars

(* ------------------------- recorder: claims ---------------------------- *)

\* the cycles of a list of Signals
CyclesOf(signals) == {signals[i].cycle : i \in 1..Len(signals)}
SignalCycles == CyclesOf(recordedSignals)
SavedCycles == UNION {CyclesOf(saved[k].signals) : k \in 1..Len(saved)}

\* C1: signalPhase changes only by WAITING_GREEN->GREEN on a press, GREEN->YELLOW on a
\* release, YELLOW->RED on the expiry of the yellow timer and RED->WAITING_GREEN on a press.
C1_PhaseSteps ==
    [][signalPhase' # signalPhase =>
         \/ signalPhase = "WAITING_GREEN" /\ signalPhase' = "GREEN" /\ lastEvent' = "press"
         \/ signalPhase = "GREEN" /\ signalPhase' = "YELLOW" /\ lastEvent' = "release"
         \/ signalPhase = "YELLOW" /\ signalPhase' = "RED" /\ lastEvent' = "timer"
         \/ signalPhase = "RED" /\ signalPhase' = "WAITING_GREEN" /\ lastEvent' = "press"]_vars

\* a second cycle has reached RED: every step of the loop was taken, the last three twice
C1_Witness ==
    /\ Len(recordedSignals) = 1
    /\ signalPhase = "RED"
    /\ lastEvent = "timer"

\* C2: a press in RED appends exactly one Signal, with greenDuration = greenEnd - greenStart,
\* yellowDuration the configured one, redDuration = now - redStart, totalDuration their sum
\* and referenceTimestamp the time of the press that entered GREEN, and resets signalPhase
\* to WAITING_GREEN; press 0, release 28, timer 31, press 58 gives 28/3/27/58 anchored at 0.
C2_CycleComplete ==
    /\ NewSignal([greenStart |-> 0, greenEnd |-> 28, redStart |-> 31], 58, "p1")
         = [location |-> "p1", referenceTimestamp |-> 0,
            cycle |-> [greenDuration |-> 28, yellowDuration |-> 3,
                       redDuration |-> 27, totalDuration |-> 58]]
    /\ [][/\ (lastEvent' = "press" /\ signalPhase = "WAITING_GREEN")
               => cycleData'.greenStart = now
          /\ cycleData'.greenStart # cycleData.greenStart
               => (lastEvent' = "press" /\ signalPhase = "WAITING_GREEN")
          /\ (lastEvent' = "press" /\ signalPhase = "RED") =>
               /\ Len(recordedSignals') = Len(recordedSignals) + 1
               /\ SubSeq(recordedSignals', 1, Len(recordedSignals)) = recordedSignals
               /\ signalPhase' = "WAITING_GREEN"
               /\ LET c == recordedSignals'[Len(recordedSignals')].cycle
                      g == cycleData.greenEnd - cycleData.greenStart
                      r == now - cycleData.redStart
                  IN  /\ c.greenDuration = g
                      /\ c.yellowDuration = 3
                      /\ c.redDuration = r
                      /\ c.totalDuration = g + 3 + r
                      /\ recordedSignals'[Len(recordedSignals')].referenceTimestamp
                           = cycleData.greenStart]_vars

\* a cycle was completed with distinct press, release, expiry and completion times
C2_Witness ==
    /\ lastEvent = "press"
    /\ signalPhase = "WAITING_GREEN"
    /\ Len(recordedSignals) = 1
    /\ recordedSignals[1].cycle.greenDuration = 1
    /\ recordedSignals[1].cycle.redDuration = 2
    /\ recordedSignals[1].referenceTimestamp = 0
    /\ now = 6

\* C3: when the session ends (finish invoked, or the recorder dismissed) while a yellow
\* timer is pending, the timer's effect on signalPhase and redStart is never applied
\* after the end.
C3_TimerCancelled ==
    [][(/\ SessionEnded
        /\ lastEvent' = "timer"
        /\ \A i \in 1..Len(yellowTimers) : yellowTimers[i].active)
          => (signalPhase' = signalPhase /\ cycleData' = cycleData)]_vars

\* C4: every recorded Signal has greenDuration > 0, yellowDuration > 0 and redDuration > 0.
C4_PositiveDurations ==
    \A c \in SignalCycles :
        c.greenDuration > 0 /\ c.yellowDuration > 0 /\ c.redDuration > 0

\* C5: every Signal of recordedSignals and of a saved Route has totalDuration = greenDuration
\* + yellowDuration + redDuration, and a Signal is never modified after it was appended.
C5_TotalIsSum ==
    /\ [](\A c \in SignalCycles \cup SavedCycles :
             c.totalDuration = c.greenDuration + c.yellowDuration + c.redDuration)
    /\ [][/\ Len(recordedSignals') >= Len(recordedSignals)
          /\ SubSeq(recordedSignals', 1, Len(recordedSignals)) = recordedSignals]_vars

\* two Signals were recorded and a Route holding them was saved
C5_Witness ==
    /\ Len(recordedSignals) = 2
    /\ Len(saved) > 0
    /\ Len(saved[1].signals) = 2

\* C6: a release in GREEN sets signalPhase to YELLOW, records greenEnd = now, leaves
\* greenStart and recordedSignals unchanged and schedules exactly one timer, due the
\* configured yellow duration later.
C6_ReleaseInGreen ==
    [][(lastEvent' = "release" /\ signalPhase = "GREEN") =>
          /\ signalPhase' = "YELLOW"
          /\ cycleData'.greenEnd = now
          /\ cycleData'.greenStart = cycleData.greenStart
          /\ recordedSignals' = recordedSignals
          /\ Len(yellowTimers') = Len(yellowTimers) + 1
          /\ SubSeq(yellowTimers', 1, Len(yellowTimers)) = yellowTimers
          /\ yellowTimers'[Len(yellowTimers')].due = now + 3]_vars

\* a release in GREEN was handled some time after the press
C6_Witness ==
    /\ lastEvent = "release"
    /\ signalPhase = "YELLOW"
    /\ cycleData.greenEnd > cycleData.greenStart
    /\ Len(yellowTimers) = 1

\* C7: YELLOW->RED is taken only by the expiry of the yellow timer, which records redStart =
\* the time of the expiry; no press or release leaves YELLOW; and from YELLOW with the
\* session active the recorder eventually reaches RED.
C7_YellowToRed ==
    /\ [][/\ (signalPhase = "YELLOW" /\ signalPhase' # "YELLOW")
               => (signalPhase' = "RED" /\ lastEvent' = "timer" /\ cycleData'.redStart = now)
          /\ (signalPhase = "YELLOW" /\ lastEvent' \in {"press", "release"})
               => signalPhase' = "YELLOW"]_vars
    /\ (signalPhase = "YELLOW" /\ ~SessionEnded) ~> (signalPhase = "RED" \/ SessionEnded)

\* the timer expired later than it was due, in a session that is still active
C7_Witness ==
    /\ lastEvent = "timer"
    /\ signalPhase = "RED"
    /\ ~SessionEnded
    /\ cycleData.redStart > cycleData.greenEnd + 3

\* C8: a release in WAITING_GREEN, YELLOW or RED and a press in GREEN or YELLOW leave
\* signalPhase, greenStart, greenEnd, redStart, recordedSignals, recordedPath and uiPhase
\* unchanged (and schedule nothing).
C8_InvalidGestureNoOp ==
    [][(\/ lastEvent' = "release" /\ signalPhase \in {"WAITING_GREEN", "YELLOW", "RED"}
        \/ lastEvent' = "press" /\ signalPhase \in {"GREEN", "YELLOW"})
          => UNCHANGED <<signalPhase, cycleData, recordedSignals, recordedPath,
                         uiPhase, yellowTimers>>]_vars

\* a release was handled in RED
C8_Witness ==
    /\ lastEvent = "release"
    /\ signalPhase = "RED"
    /\ cycleData.redStart > 0

\* the path sampler is running: the recorder is in DRIVING or RECORDING_SIGNAL
SamplerRuns(phase) == mounted /\ phase \in {"DRIVING", "RECORDING_SIGNAL"}

\* C21: while uiPhase is DRIVING or RECORDING_SIGNAL and a position is known, the path
\* sampler appends the current position to the end of recordedPath once every 2 seconds,
\* independently of signalPhase and of how often position updates or completed Signals
\* arrive: such an event leaves the time of the next sample where it was; the path only
\* grows at its end, by the current position.
C21_SamplerPeriod ==
    /\ [][recordedPath' # recordedPath =>
             /\ lastEvent' = "sample" /\ userLocation # "null"
             /\ recordedPath' = Append(recordedPath, userLocation)]_vars
    /\ [][(lastEvent' = "sample" /\ userLocation # "null")
             => (recordedPath' # recordedPath /\ pathDue' = <<now + 2>>)]_vars
    /\ [][(SamplerRuns(uiPhase) /\ SamplerRuns(uiPhase') /\ pathDue # <<>>
              /\ lastEvent' \in {"location", "press", "release", "timer"})
             => pathDue' = pathDue]_vars

\* C22: in one recording session save is called exactly once, only after finish was
\* invoked, with a Route whose startLocation is the first and endLocation the last point
\* of recordedPath; no sequence of user actions, repeated finish actions while the save
\* is pending included, causes a second save.
C22_SaveOnce ==
    /\ saveCalls <= 1
    /\ saved # <<>> =>
          /\ saveCalls > 0
          /\ saved[1].startLocation = FirstOf(saved[1].path)
          /\ saved[1].endLocation = LastOf(saved[1].path)

\* C23: once finish has been invoked (uiPhase = SAVING) press and release gestures have
\* no effect: uiPhase does not leave SAVING and no Signal is appended to recordedSignals,
\* so that the Route handed to save contains every Signal completed in the session.
C23_SavingIgnoresGestures ==
    /\ [][(uiPhase = "SAVING" /\ lastEvent' \in {"press", "release"})
             => (uiPhase' = "SAVING" /\ recordedSignals' = recordedSignals)]_vars
    /\ [](saved # <<>> => saved[1].signals = recordedSignals)

\* C25: for every Signal of the recorder totalDuration is the wall-clock time between the
\* press that started GREEN and the press that completed the cycle, whatever the delay
\* with which the yellow timer fires (redStart - greenEnd is the yellow duration).
C25_TotalIsWallClock ==
    [][(lastEvent' = "press" /\ Len(recordedSignals') = Len(recordedSignals) + 1) =>
          /\ cycleData.redStart - cycleData.greenEnd = 3
          /\ recordedSignals'[Len(recordedSignals')].cycle.totalDuration
                = now - cycleData.greenStart]_vars

\* C26: at most one yellow -> red timer is pending, and one is pending only while
\* signalPhase is YELLOW; so a timer scheduled in one cycle never fires during a later
\* cycle: a firing timer finds the cycleData of the release that scheduled it.
C26_OneTimer ==
    /\ [](Len(yellowTimers) <= 1)
    /\ [](Len(yellowTimers) > 0 =>
            /\ signalPhase = "YELLOW"
            /\ yellowTimers[1].due = cycleData.greenEnd + 3)
    /\ [][lastEvent' = "timer" => (signalPhase = "YELLOW" /\ yellowTimers' = <<>>)]_vars

\* the timer of the second cycle of a session is pending
C26_Witness ==
    /\ Len(recordedSignals) = 1
    /\ Len(yellowTimers) = 1
    /\ signalPhase = "YELLOW"
    /\ cycleData.greenStart >= recordedSignals[1].referenceTimestamp + 3

(* ------------------------ navigator: claims ---------------------------- *)

\* how many cycles ahead a cycle position is compared over
MaxWraps == 2

\* the Signal the last tick computed the phase of
TickSignal == route[1][tickLocals.nearest]

\* C9: for a Signal with totalDuration > 0 and every now, also one before the anchor, the
\* cycle position the tick uses lies in [0, totalDuration), and it is the same for now and
\* for now + k * totalDuration (stated for k >= 0: a pair of times k cycles apart is the
\* pair of the earlier time and k).
C9_CyclePosWrapped ==
    (lastEvent = "navtick" /\ TickSignal.cycle.totalDuration > 0) =>
        /\ 0 <= tickLocals.cyclePos
        /\ tickLocals.cyclePos < TickSignal.cycle.totalDuration
        /\ \A k \in 0..MaxWraps :
              CyclePos(TickSignal, now + k * TickSignal.cycle.totalDuration)
                 = tickLocals.cyclePos

\* the cycle 30/3/27 anchored at T, at T, T + 30, T + 33 and T + 60
PhaseExample ==
    \A T \in ReferenceTimestamps :
       LET sg == [location |-> Pos(0), cycle |-> NewCycle(30, 3, 27),
                  referenceTimestamp |-> T]
           At(t) == PhaseAt(sg.cycle, CyclePos(sg, t))
       IN  /\ At(T) = [currentPhase |-> "GREEN", timeToChange |-> 30,
                       nextPhase |-> "YELLOW"]
           /\ At(T + 30) = [currentPhase |-> "YELLOW", timeToChange |-> 3,
                            nextPhase |-> "RED"]
           /\ At(T + 33) = [currentPhase |-> "RED", timeToChange |-> 27,
                            nextPhase |-> "GREEN"]
           /\ At(T + 60) = [currentPhase |-> "GREEN", timeToChange |-> 30,
                            nextPhase |-> "YELLOW"]

\* C10: at a cycle position e in [0, totalDuration) the tick publishes GREEN, YELLOW,
\* greenDuration - e if e < greenDuration; else YELLOW, RED, greenDuration + yellowDuration
\* - e if e < greenDuration + yellowDuration; else RED, GREEN, totalDuration - e. The cycle
\* 30/3/27 anchored at T is GREEN/30 at T, YELLOW/3 at T+30, RED/27 at T+33, GREEN/30 at T+60.
C10_PhaseRules ==
    /\ PhaseExample
    /\ lastEvent = "navtick" =>
          LET e == tickLocals.cyclePos
              c == TickSignal.cycle
              published == <<navState.currentPhase, navState.nextPhase,
                             navState.timeToPhaseChange>>
          IN  (0 <= e /\ e < c.totalDuration) =>
                 /\ e < c.greenDuration
                      => published = <<"GREEN", "YELLOW", c.greenDuration - e>>
                 /\ (e >= c.greenDuration /\ e < c.greenDuration + c.yellowDuration)
                      => published = <<"YELLOW", "RED",
                                       c.greenDuration + c.yellowDuration - e>>
                 /\ e >= c.greenDuration + c.yellowDuration
                      => published = <<"RED", "GREEN", c.totalDuration - e>>

\* a tick in the red phase of a cycle that has a green, a yellow and a red phase
C10_Witness ==
    /\ lastEvent = "navtick"
    /\ TickSignal.cycle.greenDuration = 2
    /\ tickLocals.cyclePos = 5
    /\ navState.currentPhase = "RED"
    /\ navState.nextPhase = "GREEN"
    /\ navState.timeToPhaseChange = 4

\* a >= b on numbers
AtLeast(a, b) == ~IsNaN(a) /\ ~IsNaN(b) /\ ~RLess(a, b)

\* the successor of a phase in the order GREEN -> YELLOW -> RED -> GREEN
SuccessorPhase(p) ==
    CASE p = "GREEN" -> "YELLOW"
      [] p = "YELLOW" -> "RED"
      [] p = "RED" -> "GREEN"
      [] OTHER -> "none"

\* the last step was a tick that published a NavigationState
Ticked == lastEvent = "navtick"

\* what the last tick published
Published ==
    [action |-> navState.recommendedAction, targetSpeed |-> navState.targetSpeedKmh]

\* C11: for every Signal of the recorder and every now, the timeToPhaseChange a tick
\* publishes satisfies 0 < timeToPhaseChange <= totalDuration, currentPhase is one of
\* GREEN, YELLOW, RED and nextPhase is its successor in GREEN -> YELLOW -> RED -> GREEN.
C11_TimeToChangeInRange ==
    Ticked =>
        /\ 0 < navState.timeToPhaseChange
        /\ navState.timeToPhaseChange <= TickSignal.cycle.totalDuration
        /\ navState.currentPhase \in {"GREEN", "YELLOW", "RED"}
        /\ navState.nextPhase = SuccessorPhase(navState.currentPhase)

\* values of eta and timeToChange the rules are compared over
EtaSamples == {RInt(0), Rat(1, 2), RInt(5), RInt(EtaSentinel), Infinity}
TimeToChangeSamples == {1, 5, 27, 1000}
DistanceSamples == {RInt(0), RInt(15), RInt(20), RInt(200), Infinity}

\* 15 m from the Signal in RED, for every sampled eta and timeToChange
ArrivalExample ==
    \A eta \in EtaSamples, t \in TimeToChangeSamples :
       Recommend(RInt(15), eta, "RED", t) = [action |-> "STOP", targetSpeed |-> <<>>]

\* C12: whenever the distance a tick computes is below 20 m, it recommends STOP if the
\* phase is RED and MAINTAIN otherwise, with no target speed, whatever speed, eta and
\* timeToChange are; at 15 m in RED the recommendation is STOP.
C12_ArrivalZone ==
    /\ ArrivalExample
    /\ (Ticked /\ RLess(navState.distanceToSignal, RInt(20))) =>
          Published = [action |-> IF navState.currentPhase = "RED"
                                  THEN "STOP" ELSE "MAINTAIN",
                       targetSpeed |-> <<>>]

\* a tick 15 m from the Signal, in RED, with a speed and an eta below timeToChange
C12_Witness ==
    /\ Ticked
    /\ navState.distanceToSignal = RInt(15)
    /\ navState.currentPhase = "RED"
    /\ RLess(RInt(0), tickLocals.speedMps)
    /\ RLess(navState.etaSeconds, RInt(navState.timeToPhaseChange))
    /\ navState.recommendedAction = "STOP"

\* 200 m at 15 m/s in GREEN with 10 s to the change
GreenExample ==
    Recommend(RInt(200), Eta(RInt(200), RInt(15)), "GREEN", 10)
       = [action |-> "DECELERATE", targetSpeed |-> <<>>]

\* C13: whenever the distance is at least 20 m and the phase is GREEN, a tick recommends
\* MAINTAIN if eta < timeToChange and DECELERATE otherwise, also when eta = timeToChange,
\* with no target speed; 200 m at 15 m/s with timeToChange 10 s gives DECELERATE.
C13_GreenRule ==
    /\ GreenExample
    /\ (Ticked /\ AtLeast(navState.distanceToSignal, RInt(20))
               /\ navState.currentPhase = "GREEN") =>
          Published =
             [action |-> IF RLess(navState.etaSeconds, RInt(navState.timeToPhaseChange))
                         THEN "MAINTAIN" ELSE "DECELERATE",
              targetSpeed |-> <<>>]

\* a tick in GREEN, 20 m or more away, whose eta equals timeToChange
C13_Witness ==
    /\ Ticked
    /\ AtLeast(navState.distanceToSignal, RInt(20))
    /\ navState.currentPhase = "GREEN"
    /\ navState.etaSeconds = RInt(navState.timeToPhaseChange)
    /\ navState.recommendedAction = "DECELERATE"

\* the tick that was just taken is in the red branch with eta < timeToChange
RedDecelerateBranch ==
    /\ AtLeast(navState.distanceToSignal, RInt(20))
    /\ navState.currentPhase = "RED"
    /\ RLess(navState.etaSeconds, RInt(navState.timeToPhaseChange))

\* C14: whenever the distance is at least 20 m and the phase is RED, a tick recommends
\* DECELERATE with targetSpeed = distance / timeToChange (published in km/h) if
\* eta < timeToChange, and MAINTAIN with no target speed otherwise; a tick that takes any
\* other branch leaves no target speed, whatever an earlier tick published.
C14_RedRule ==
    /\ [](Ticked =>
            IF RedDecelerateBranch
            THEN Published =
                    [action |-> "DECELERATE",
                     targetSpeed |->
                        <<RMul(RDiv(navState.distanceToSignal,
                                    RInt(navState.timeToPhaseChange)), Rat(18, 5))>>]
            ELSE /\ navState.targetSpeedKmh = <<>>
                 /\ (AtLeast(navState.distanceToSignal, RInt(20))
                        /\ navState.currentPhase = "RED")
                       => navState.recommendedAction = "MAINTAIN")
    /\ [][(lastEvent' = "navtick" /\ navState.targetSpeedKmh # <<>>
              /\ ~RedDecelerateBranch')
             => navState'.targetSpeedKmh = <<>>]_vars

\* a tick in RED, 40 m away, 4 s before green: 36 km/h arrives at the change
C14_Witness ==
    /\ Ticked
    /\ RedDecelerateBranch
    /\ navState.distanceToSignal = RInt(40)
    /\ navState.timeToPhaseChange = 4
    /\ Published = [action |-> "DECELERATE", targetSpeed |-> <<RInt(36)>>]

\* YELLOW for every sampled distance, eta and timeToChange
YellowExample ==
    \A d \in DistanceSamples, eta \in EtaSamples, t \in TimeToChangeSamples :
       Recommend(d, eta, "YELLOW", t) = [action |-> "MAINTAIN", targetSpeed |-> <<>>]

\* C15: whenever the phase is YELLOW a tick recommends MAINTAIN with no target speed, for
\* every distance, speed and timeToChange.
C15_YellowDefault ==
    /\ YellowExample
    /\ (Ticked /\ navState.currentPhase = "YELLOW") =>
          Published = [action |-> "MAINTAIN", targetSpeed |-> <<>>]

\* a tick in YELLOW outside the arrival zone, at a speed above 0
C15_Witness ==
    /\ Ticked
    /\ navState.currentPhase = "YELLOW"
    /\ AtLeast(navState.distanceToSignal, RInt(20))
    /\ RLess(RInt(0), tickLocals.speedMps)
    /\ navState.recommendedAction = "MAINTAIN"

\* C16: a tick computes eta = distance / speed when speed > 0 and 999 when speed is 0;
\* with speed 0 and a distance of at least 20 m it never recommends MAINTAIN in GREEN and
\* never DECELERATE in RED, for every cycle of the recorder, also one whose timeToChange
\* exceeds 999 s (shown on a finite distance).
C16_SentinelNeverArrives ==
    Ticked =>
        /\ RLess(RInt(0), tickLocals.speedMps)
              => navState.etaSeconds
                    = RDiv(navState.distanceToSignal, tickLocals.speedMps)
        /\ tickLocals.speedMps = RInt(0) =>
              /\ navState.etaSeconds = RInt(999)
              /\ (AtLeast(navState.distanceToSignal, RInt(20))
                    /\ navState.distanceToSignal # Infinity) =>
                    /\ ~(navState.currentPhase = "GREEN"
                            /\ navState.recommendedAction = "MAINTAIN")
                    /\ ~(navState.currentPhase = "RED"
                            /\ navState.recommendedAction = "DECELERATE")

\* the arithmetic mean of a window of samples, 0 for the empty window
WindowMean(h) ==
    IF Len(h) = 0 THEN RInt(0) ELSE RDiv(SumFrom(h, 1), RInt(Len(h)))

\* the last n elements of a sequence
LastN(h, n) == IF Len(h) > n THEN SubSeq(h, Len(h) - n + 1, Len(h)) ELSE h

\* the sample a fix at position p contributes: the distance moved since the last fix
\* over the time elapsed, 0 for the first fix and for a fix with zero elapsed time
SampleOf(p) ==
    IF lastPosition = <<>> \/ now = lastPosition[1].time THEN RInt(0)
    ELSE RDiv(calculateDistance(lastPosition[1].pos, p), RInt(now - lastPosition[1].time))

\* the speed published for a smoothed speed m: 0 below 0.5 m/s, else m in km/h
ClampedKmh(m) == IF RLess(m, Rat(1, 2)) THEN RInt(0) ELSE RMul(m, Rat(18, 5))

C18_JitterClamp ==
    /\ navState.currentSpeedKmh = ClampedKmh(WindowMean(speedHistory))
    /\ \A kmh \in {navState.currentSpeedKmh, tickSpeedKmh} :
          LET mps == RDiv(kmh, Rat(18, 5))
          IN  ~(RLess(RInt(0), mps) /\ RLess(mps, Rat(1, 2)))

\* a fix after which the smoothed speed is 0.25 m/s and the published speed 0
C18_Witness ==
    /\ lastEvent = "fix"
    /\ WindowMean(speedHistory) = Rat(1, 4)
    /\ navState.currentSpeedKmh = RInt(0)

\* the distance from the last known position to the i-th Signal of the route
DistanceTo(i) == calculateDistance(lastPosition[1].pos, route[1][i].location)

\* C19: on every tick with a non-empty signal list, the distance the advisor uses is the
\* minimum over the Signals of the route of the distance from the last known position, and
\* the phase is computed from the first Signal in list order that attains it, whether it
\* is ahead of or behind the vehicle.
C19_NearestSignal ==
    Ticked =>
        LET n == tickLocals.nearest
        IN  /\ navState.distanceToSignal = DistanceTo(n)
            /\ \A j \in 1..Len(route[1]) : AtLeast(DistanceTo(j), DistanceTo(n))
            /\ \A j \in 1..(n - 1) : DistanceTo(j) # DistanceTo(n)

\* C20: as long as no position fix has been received, or the route is not loaded, or it
\* has no Signals, every tick leaves the NavigationState unchanged: recommendedAction
\* stays MAINTAIN, distance and eta stay 0, and no target speed is set.
C20_IdleTick ==
    /\ [](TickReturnsEarly =>
            /\ navState.recommendedAction = "MAINTAIN"
            /\ navState.distanceToSignal = RInt(0)
            /\ navState.etaSeconds = RInt(0)
            /\ navState.targetSpeedKmh = <<>>)
    /\ [][(TickReturnsEarly /\ lastEvent' \in {"navidle", "navtick"})
             => (lastEvent' = "navidle" /\ navState' = navState)]_vars

\* a tick with a route of two Signals loaded, before the first position fix
C20_Witness ==
    /\ lastEvent = "navidle"
    /\ route # <<>>
    /\ Len(route[1]) = 2
    /\ lastPosition = <<>>

\* C24: the speed a tick uses to compute eta is the most recently published smoothed
\* speed, the one of the latest position update, under every interleaving of position
\* updates and ticks (shown on a published speed that is a number).
C24_TickUsesLatestSpeed ==
    (Ticked /\ ~IsNaN(navState.currentSpeedKmh)) =>
        tickLocals.speedMps = RDiv(navState.currentSpeedKmh, Rat(18, 5))

\* C27: whenever a tick publishes a target speed, the recommendation is DECELERATE in
\* RED at a distance of at least 20 m, and the target speed is strictly positive and
\* strictly lower than the speed the tick used to compute eta (both in km/h).
C27_TargetBelowSpeed ==
    (Ticked /\ navState.targetSpeedKmh # <<>>) =>
        /\ navState.recommendedAction = "DECELERATE"
        /\ navState.currentPhase = "RED"
        /\ AtLeast(navState.distanceToSignal, RInt(20))
        /\ RLess(RInt(0), navState.targetSpeedKmh[1])
        /\ RLess(navState.targetSpeedKmh[1], RMul(tickLocals.speedMps, Rat(18, 5)))

\* C28: in every NavigationState recommendedAction is one of MAINTAIN, DECELERATE, STOP
\* (never ACCELERATE), and it is STOP only when the distance is below 20 m and the phase
\* is RED.
C28_NoAccelerate ==
    /\ navState.recommendedAction \in {"MAINTAIN", "DECELERATE", "STOP"}
    /\ navState.recommendedAction = "STOP" =>
          /\ RLess(navState.distanceToSignal, RInt(20))
          /\ navState.currentPhase = "RED"

\* STOP is published 10 m from the nearer of two Signals
C28_Witness ==
    /\ navState.recommendedAction = "STOP"
    /\ navState.distanceToSignal = RInt(10)
    /\ Len(route[1]) = 2

====
